---- MODULE Spec2Model ----
(* Model of the gitea_issues_sdk transport core (GiteaClient), of the     *)
(* resource operations built on it, and of the pagination helper.         *)
(* Text values are sequences of string tokens, so that formatting         *)
(* (f-strings), stripping and concatenation are computed, not assumed.    *)
EXTENDS Integers, Sequences, FiniteSets, TLC

VARIABLES
    base_url,       \* GiteaClient.base_url
    timeout,        \* GiteaClient.timeout
    auth,           \* GiteaClient.session.auth
    headers,        \* GiteaClient.session.headers (a dict: its domain is the keys present)
    constructed,    \* history: the transport configuration as __init__ left it
    json_exc_is_request_exc, \* installed HTTP library: is its JSON decode error a RequestException
    op,             \* the operation called last
    op_args,        \* the arguments it was called with, the params it built
    parse_errors_logged, \* history: what the last call passed to logger.error for items
    lastReq,        \* the request handed to the HTTP layer by the last call
    lastResp,       \* what the HTTP layer produced for it
    outcome,        \* what the last call returned or raised
    requests_sent,  \* history: how often the last call invoked session.request
    pc,             \* paginate_results: position
    page_size,      \* paginate_results: argument page_size
    max_items,      \* paginate_results: argument max_items
    kwargs,         \* paginate_results: extra keyword arguments
    page,           \* paginate_results: local page
    results,        \* paginate_results: local results
    calls,          \* history: the calls made to fetch_func, in order
    fetched,        \* history: the pages fetch_func returned, in order
    arg,            \* the argument of the constructor or function applied last
    ret,            \* what it returned or raised
    running,        \* server: is the stopwatch of the issue running
    logger_level,   \* logging.getLogger("gitea_issues_sdk").level
    logger_handlers, \* logging.getLogger("gitea_issues_sdk").handlers
    setup_calls,    \* history: how many times setup_logger was called
    installed       \* history: the handlers the last setup_logger call that returned added

clientVars == <<base_url, timeout, auth, headers, constructed,
                json_exc_is_request_exc, op, op_args, parse_errors_logged,
                lastReq, lastResp, outcome, requests_sent>>
pageVars == <<pc, page_size, max_items, kwargs, page, results, calls, fetched>>
pureVars == <<arg, ret>>
loggerVars == <<logger_level, logger_handlers, setup_calls, installed>>
envVars == <<running, loggerVars>>
vars == <<clientVars, pageVars, pureVars, envVars>>

----------------------------------------------------------------------------
(* Values *)

None == "None"
EmptyText == << >>

DefaultTimeout == 30
DefaultPageSize == 30

RECURSIVE rstrip(_, _)
rstrip(s, ch) ==
    IF Len(s) > 0 /\ s[Len(s)] = ch THEN rstrip(SubSeq(s, 1, Len(s) - 1), ch) ELSE s

RECURSIVE lstrip(_, _)
lstrip(s, ch) ==
    IF Len(s) > 0 /\ s[1] = ch THEN lstrip(Tail(s), ch) ELSE s

(* Python truthiness of an optional string / dict argument *)
Truthy(v) == v # None /\ v # "" /\ v # "{}"

(* dict.update and dict.pop(key, None) *)
DictUpdate(d, e) ==
    [k \in DOMAIN d \cup DOMAIN e |-> IF k \in DOMAIN e THEN e[k] ELSE d[k]]
DictPop(d, key) == [k \in DOMAIN d \ {key} |-> d[k]]

EmptyDictFn == [k \in {} |-> EmptyText]

----------------------------------------------------------------------------
(* JSON payloads: a decoded value is a dict over JsonKeys (a key that is  *)
(* not in the dict maps to Missing), a list, or not decodable at all.     *)

Missing == "<missing>"
LabelFields == {"id", "name", "color", "description", "url", "exclusive", "is_archived"}
AttachmentFields == {"id", "name", "size", "download_url", "uuid",
                     "browser_download_url", "created_at"}
JsonKeys == LabelFields \cup AttachmentFields \cup {"message"}

NoKeys == [k \in JsonKeys |-> Missing]
JDict(d) == [type |-> "dict", d |-> d]
JList == [type |-> "list", d |-> NoKeys]
NotJSON == [type |-> "invalid", d |-> NoKeys]
RawBytesEmpty == [type |-> "bytes", d |-> NoKeys]
EmptyMapping == JDict(NoKeys)

DictGet(d, k, default) == IF d[k] = Missing THEN default ELSE d[k]

----------------------------------------------------------------------------
(* Exceptions: class, formatted message (args), instance attributes set   *)
(* by the class's __init__, and the exception being handled when it was   *)
(* raised (__context__).                                                  *)

Ancestors(cls) ==
    CASE cls = "client.GiteaAPIError" -> {"client.GiteaAPIError", "Exception"}
      [] cls = "exceptions.GiteaError" -> {"exceptions.GiteaError", "Exception"}
      [] cls = "exceptions.GiteaAPIError" ->
            {"exceptions.GiteaAPIError", "exceptions.GiteaError", "Exception"}
      [] cls = "exceptions.GiteaConnectionError" ->
            {"exceptions.GiteaConnectionError", "exceptions.GiteaError", "Exception"}
      [] cls = "exceptions.GiteaNotFoundError" ->
            {"exceptions.GiteaNotFoundError", "exceptions.GiteaAPIError",
             "exceptions.GiteaError", "Exception"}
      [] OTHER -> {cls, "Exception"}

IsInstance(exc, cls) == cls \in Ancestors(exc.cls)

NoExc == [cls |-> "none", args |-> EmptyText, attrs |-> EmptyDictFn, context |-> None]
NoValue == [type |-> "none", d |-> NoKeys]
NoOutcome == [kind |-> "none", value |-> NoValue, exc |-> NoExc]
Return(v) == [kind |-> "return", value |-> v, exc |-> NoExc]
Raise(e) == [kind |-> "raise", value |-> NoValue, exc |-> e]

(* str(e) of an exception built from one message argument *)
Str(exc) == exc.args

(* client.py's own GiteaAPIError: a bare Exception subclass, message only *)
ClientGiteaAPIError(message, ctx) ==
    [cls |-> "client.GiteaAPIError", args |-> message, attrs |-> EmptyDictFn,
     context |-> ctx]

(* an exception of the runtime or of a library, propagating unchanged *)
Propagated(cls, message) ==
    [cls |-> cls, args |-> message, attrs |-> EmptyDictFn, context |-> None]

----------------------------------------------------------------------------
(* GiteaClient.__init__ *)

BaseUrls == {<<"https://gitea.example.com/api/v1">>,
             <<"https://gitea.example.com/api/v1", "/">>}
Tokens == {None, "", "secret-token"}
Usernames == {None, "alice"}
Passwords == {None, "pw"}

(* the default headers of a fresh requests.Session that matter here *)
SessionDefaultHeaders == [x \in {"Accept", "User-Agent"} |->
                            IF x = "Accept" THEN <<"*/*">> ELSE <<"python-requests">>]
AppJson == <<"application/json">>
CommonHeaders == [x \in {"Accept", "Content-Type"} |-> AppJson]
TokenHeader(token) == [x \in {"Authorization"} |-> <<"token ", token>>]

NoAuth == << >>

InitHeaders(token) ==
    DictUpdate(IF Truthy(token)
               THEN DictUpdate(SessionDefaultHeaders, TokenHeader(token))
               ELSE SessionDefaultHeaders,
               CommonHeaders)

InitAuthBoth(token, username, password) ==
    IF Truthy(username) /\ Truthy(password) THEN <<username, password>> ELSE NoAuth
InitAuth(token, username, password) ==
    IF Truthy(token) THEN NoAuth
    ELSE IF Truthy(username) /\ Truthy(password) THEN <<username, password>>
    ELSE NoAuth

----------------------------------------------------------------------------
(* The HTTP layer: what session.request puts on the wire, and what it     *)
(* gives back.                                                            *)

MultipartType == <<"multipart/form-data; boundary=", "<generated>">>
FormType == <<"application/x-www-form-urlencoded">>

(* the encoding of the body and the content type the HTTP layer derives from it *)
BodyEncoding(data, json_data, files) ==
    IF Truthy(files) THEN "multipart"
    ELSE IF Truthy(data) THEN "form"
    ELSE IF json_data # None THEN "json"
    ELSE "none"

BodyContentType(enc) ==
    CASE enc = "multipart" -> MultipartType
      [] enc = "form" -> FormType
      [] enc = "json" -> AppJson
      [] OTHER -> EmptyText

(* session headers go on the wire; the body's content type only fills a gap *)
WireHeaders(hdrs, enc) ==
    IF "Content-Type" \in DOMAIN hdrs \/ enc = "none" THEN hdrs
    ELSE DictUpdate(hdrs, [x \in {"Content-Type"} |-> BodyContentType(enc)])

NoReq == [sent |-> FALSE, method |-> None, url |-> EmptyText, files |-> None,
          encoding |-> "none", wire |-> EmptyDictFn, timeout |-> 0]

SentRequest(method, url, hdrs, data, json_data, files, to) ==
    [sent |-> TRUE, method |-> method, url |-> url, files |-> files,
     encoding |-> BodyEncoding(data, json_data, files),
     wire |-> WireHeaders(hdrs, BodyEncoding(data, json_data, files)),
     timeout |-> to]

Statuses == {200, 204, 299, 300, 404, 500}

LabelJson == JDict([k \in JsonKeys |->
                CASE k = "id" -> "7" [] k = "name" -> "bug" [] k = "color" -> "ff0000"
                  [] OTHER -> Missing])
MessageJson == JDict([k \in JsonKeys |-> IF k = "message" THEN "boom" ELSE Missing])

(* response bodies: text is response.text / response.content, json is what *)
(* response.json() decodes, NotJSON when decoding raises                   *)
Bodies == {
    [text |-> EmptyText, json |-> NotJSON],
    [text |-> <<"{\"message\": \"boom\"}">>, json |-> MessageJson],
    [text |-> <<"{\"id\": 7, \"name\": \"bug\", \"color\": \"ff0000\"}">>, json |-> LabelJson],
    [text |-> <<"[1, 2]">>, json |-> JList],
    [text |-> <<"<html>Bad Gateway</html>">>, json |-> NotJSON] }

ConnectionFailures == {"ConnectionError", "Timeout"}

NoResp == [kind |-> "none", status |-> 0, text |-> EmptyText, json |-> NotJSON,
           cause |-> None]
Responses ==
    {[kind |-> "response", status |-> s, text |-> b.text, json |-> b.json,
      cause |-> None] : s \in Statuses, b \in Bodies}
    \cup {[kind |-> "exception", status |-> 0, text |-> EmptyText, json |-> NotJSON,
           cause |-> c] : c \in ConnectionFailures}

----------------------------------------------------------------------------
(* GiteaClient.request *)

Url(base, path) == base \o <<"/">> \o lstrip(path, "/")

HeadersAfterRequest(hdrs, files) ==
    IF Truthy(files) THEN DictPop(hdrs, "Content-Type") ELSE hdrs

ConnectMessage(cause) == <<"Failed to connect to Gitea API: ", cause>>

ErrorMessage(resp) ==
    IF resp.json.type # "invalid"
    THEN IF resp.json.type = "dict" /\ resp.json.d["message"] # Missing
         THEN <<resp.json.d["message"]>>
         ELSE <<"Unknown error">>
    ELSE IF resp.text # EmptyText THEN resp.text
    ELSE <<"HTTP ", ToString(resp.status)>>

ApiErrorMessage(resp) ==
    <<"API error (", ToString(resp.status), "): ">> \o ErrorMessage(resp)

(* a 2xx body that is not empty: response.json(), whose decode error is a *)
(* RequestException in some versions of the HTTP library and a plain      *)
(* ValueError in others                                                   *)
DecodeSuccessBody(resp, excIsRequestExc) ==
    IF resp.json.type # "invalid" THEN Return(resp.json)
    ELSE IF excIsRequestExc
         THEN Raise(ClientGiteaAPIError(ConnectMessage("JSONDecodeError"), "JSONDecodeError"))
         ELSE Raise(Propagated("JSONDecodeError", <<"Expecting value">>))

RequestOutcomeAcceptingConflict(resp, excIsRequestExc) ==
    IF resp.kind = "exception"
    THEN Raise(ClientGiteaAPIError(ConnectMessage(resp.cause), resp.cause))
    ELSE IF resp.status \in {204, 409} THEN Return(EmptyMapping)
    ELSE IF 200 <= resp.status /\ resp.status < 300
         THEN IF resp.text # EmptyText
              THEN DecodeSuccessBody(resp, excIsRequestExc)
              ELSE Return(RawBytesEmpty)
    ELSE Raise(ClientGiteaAPIError(ApiErrorMessage(resp), None))
RequestOutcome(resp, excIsRequestExc) ==
    IF resp.kind = "exception"
    THEN Raise(ClientGiteaAPIError(ConnectMessage(resp.cause), resp.cause))
    ELSE IF resp.status = 204 THEN Return(EmptyMapping)
    ELSE IF 200 <= resp.status /\ resp.status < 300
         THEN IF resp.text # EmptyText
              THEN DecodeSuccessBody(resp, excIsRequestExc)
              ELSE Return(RawBytesEmpty)
    ELSE Raise(ClientGiteaAPIError(ApiErrorMessage(resp), None))

Methods == {"GET", "POST"}
RepoArgs(owner, repo) == [owner |-> owner, repo |-> repo]
NoRepoArgs == RepoArgs(None, None)
AttachmentArgs(owner, repo, exists) ==
    [owner |-> owner, repo |-> repo, file_exists |-> exists]
Paths == {<<"/", "version">>}
JsonArgs == {None, "obj"}
FilesArgs == {None, "{}", "file"}

(* no retry: session.request is invoked once whatever it produces *)
AttemptsRetrying(resp) == IF resp.kind = "exception" THEN 2 ELSE 1
Attempts(resp) == 1

(* one call of GiteaClient.request by operation name, answered by resp;  *)
(* result is what the operation makes of the outcome of the request      *)
DoRequest(name, method, path, data, json_data, files, resp, result) ==
    /\ headers' = HeadersAfterRequest(headers, files)
    /\ lastReq' = SentRequest(method, Url(base_url, path), headers', data, json_data,
                              files, timeout)
    /\ lastResp' = resp
    /\ requests_sent' = Attempts(resp)
    /\ outcome' = result
    /\ op' = name
    /\ UNCHANGED <<base_url, timeout, auth, constructed, json_exc_is_request_exc>>

Outcome(resp) == RequestOutcome(resp, json_exc_is_request_exc)

request ==
    \E method \in Methods, path \in Paths, json_data \in JsonArgs,
       files \in FilesArgs, resp \in Responses :
        /\ DoRequest("request", method, path, None, json_data, files, resp, Outcome(resp))
        /\ op_args' = NoRepoArgs
        /\ parse_errors_logged' = << >>
        /\ UNCHANGED <<pageVars, pureVars, envVars>>

----------------------------------------------------------------------------
(* Resource models and operations *)

AttributeError(type) ==
    Propagated("AttributeError", <<"'", type, "' object has no attribute 'get'">>)

LabelDefault(f) == IF f \in {"exclusive", "is_archived"} THEN "False" ELSE None

Label(data) ==
    IF data.type = "dict"
    THEN Return([type |-> "Label",
                 d |-> [f \in LabelFields |-> DictGet(data.d, f, LabelDefault(f))]])
    ELSE Raise(AttributeError(data.type))

Attachment(data) ==
    IF data.type = "dict"
    THEN Return([type |-> "Attachment",
                 d |-> [f \in AttachmentFields |-> DictGet(data.d, f, None)]])
    ELSE Raise(AttributeError(data.type))

LabelOf(o) == IF o.kind = "return" THEN Label(o.value) ELSE o
AttachmentOf(o) == IF o.kind = "return" THEN Attachment(o.value) ELSE o

Owners == {"acme"}
Repos == {"widgets"}
LabelIds == {7}
IssueIndexes == {1}

LabelPath(owner, repo, id) ==
    <<"repos/", owner, "/", repo, "/labels/", ToString(id)>>
AssetsPath(owner, repo, index) ==
    <<"repos/", owner, "/", repo, "/issues/", ToString(index), "/assets">>

get_label ==
    \E owner \in Owners, repo \in Repos, id \in LabelIds, resp \in Responses :
        /\ DoRequest("get_label", "GET", LabelPath(owner, repo, id), None, None, None,
                     resp, LabelOf(Outcome(resp)))
        /\ op_args' = RepoArgs(owner, repo)
        /\ parse_errors_logged' = << >>
        /\ UNCHANGED <<pageVars, pureVars, envVars>>

(* create_issue_attachment: the file is checked before anything is sent *)
create_issue_attachment ==
    \E owner \in Owners, repo \in Repos, index \in IssueIndexes, exists \in BOOLEAN :
        IF ~exists
        THEN /\ outcome' = Raise(Propagated("FileNotFoundError", <<"File not found: ", "path">>))
             /\ lastReq' = NoReq
             /\ lastResp' = NoResp
             /\ requests_sent' = 0
             /\ op' = "create_issue_attachment"
             /\ op_args' = AttachmentArgs(owner, repo, exists)
             /\ parse_errors_logged' = << >>
             /\ UNCHANGED <<base_url, timeout, auth, headers, constructed,
                            json_exc_is_request_exc>>
             /\ UNCHANGED <<pageVars, pureVars, envVars>>
        ELSE \E resp \in Responses :
             /\ DoRequest("create_issue_attachment", "POST",
                          AssetsPath(owner, repo, index), None, None, "file",
                          resp, AttachmentOf(Outcome(resp)))
             /\ op_args' = AttachmentArgs(owner, repo, exists)
             /\ parse_errors_logged' = << >>
             /\ UNCHANGED <<pageVars, pureVars, envVars>>

----------------------------------------------------------------------------
(* paginate_results *)

MaxFetches == 3

NoMax == << >>
PageSizes == {1, 2, DefaultPageSize}
MaxItemsArgs == {NoMax, <<0>>, <<1>>, <<2>>, <<50>>}
KwargsArgs == {"{}", "{state: open}"}

(* the lengths a fetched page may have: empty, short, full, over-full *)
PageLens(limit) == {n \in {0, 1, 12, limit - 1, limit, limit + 1} : n >= 0}

(* the items of a page are opaque; each is tagged with where it came from *)
PageOf(p, n) == [j \in 1..n |-> <<p, j>>]

FetchCall(p, limit, kw) == [page |-> p, limit |-> limit, kwargs |-> kw]

FirstPage == 1
NextPageSkip(p) == p + 2
NextPage(p) == p + 1

MaxReachedNever(max, n) == FALSE
MaxReached(max, n) == max # NoMax /\ max[1] # 0 /\ n >= max[1]
TruncateOneMore(r, max) == SubSeq(r, 1, IF max[1] + 1 < Len(r) THEN max[1] + 1 ELSE Len(r))
Truncate(r, max) == SubSeq(r, 1, IF max[1] < Len(r) THEN max[1] ELSE Len(r))
ExtendReplacing(r, page_results) == page_results
Extend(r, page_results) == r \o page_results
IsLastPageOrFull(page_results, size) == Len(page_results) <= size
IsLastPage(page_results, size) == Len(page_results) < size

paginate_call ==
    /\ pc = "idle"
    /\ results' = << >>
    /\ page' = FirstPage
    /\ pc' = "loop"
    /\ UNCHANGED <<page_size, max_items, kwargs, calls, fetched>>
    /\ UNCHANGED <<clientVars, pureVars, envVars>>

(* one iteration of the while loop: a fetch and the decisions after it *)
paginate_fetch ==
    /\ pc = "loop"
    /\ Len(calls) < MaxFetches
    /\ \E n \in PageLens(page_size) :
        LET page_results == PageOf(page, n)
            extended == Extend(results, page_results)
        IN  /\ calls' = Append(calls, FetchCall(page, page_size, kwargs))
            /\ fetched' = Append(fetched, page_results)
            /\ IF page_results = << >>
               THEN /\ pc' = "done"
                    /\ UNCHANGED <<results, page>>
               ELSE IF MaxReached(max_items, Len(extended))
               THEN /\ results' = Truncate(extended, max_items)
                    /\ pc' = "done"
                    /\ UNCHANGED page
               ELSE IF IsLastPage(page_results, page_size)
               THEN /\ results' = extended
                    /\ pc' = "done"
                    /\ UNCHANGED page
               ELSE /\ results' = extended
                    /\ page' = NextPage(page)
                    /\ pc' = "loop"
    /\ UNCHANGED <<page_size, max_items, kwargs>>
    /\ UNCHANGED <<clientVars, pureVars, envVars>>

----------------------------------------------------------------------------
(* Specifications *)

Configuration(bu, to, a, h) == [base_url |-> bu, timeout |-> to, auth |-> a, headers |-> h]

ClientConstructed(bu, token, username, password, to) ==
    /\ base_url = rstrip(bu, "/")
    /\ timeout = to
    /\ auth = InitAuth(token, username, password)
    /\ headers = InitHeaders(token)
    /\ constructed = Configuration(base_url, timeout, auth, headers)
    /\ op = "__init__"
    /\ op_args = [owner |-> None, repo |-> None, token |-> token,
                  username |-> username, password |-> password]
    /\ parse_errors_logged = << >>
    /\ lastReq = NoReq
    /\ lastResp = NoResp
    /\ outcome = NoOutcome
    /\ requests_sent = 0

PaginateArgs(size, max, kw) ==
    /\ pc = "idle"
    /\ page_size = size
    /\ max_items = max
    /\ kwargs = kw
    /\ page = 0
    /\ results = << >>
    /\ calls = << >>
    /\ fetched = << >>

NoArg == [class |-> "none"]
NoReturn == [kind |-> "none"]
NothingApplied == arg = NoArg /\ ret = NoReturn

(* the process and the server before anything was called: the stopwatch  *)
(* is stopped; logging.getLogger gave a logger with level NOTSET and no   *)
(* handlers                                                               *)
Untouched ==
    /\ running = FALSE
    /\ logger_level = 0
    /\ logger_handlers = << >>
    /\ setup_calls = 0
    /\ installed = << >>

InitClient ==
    /\ NothingApplied
    /\ Untouched
    /\ \E bu \in BaseUrls, token \in Tokens, username \in Usernames,
          password \in Passwords :
            ClientConstructed(bu, token, username, password, DefaultTimeout)
    /\ json_exc_is_request_exc \in BOOLEAN
    /\ PaginateArgs(DefaultPageSize, NoMax, "{}")

NextClient == request \/ get_label \/ create_issue_attachment

SpecClient == InitClient /\ [][NextClient]_vars

InitPaginate ==
    /\ NothingApplied
    /\ Untouched
    /\ ClientConstructed(<<"https://gitea.example.com/api/v1">>, "secret-token",
                         None, None, DefaultTimeout)
    /\ json_exc_is_request_exc = TRUE
    /\ \E size \in PageSizes, max \in MaxItemsArgs, kw \in KwargsArgs :
            PaginateArgs(size, max, kw)

NextPaginate == paginate_call \/ paginate_fetch

SpecPaginate == InitPaginate /\ [][NextPaginate]_vars

(* paginate_results runs on: a call that was made enters the loop, and    *)
(* fetch_func returns, so the loop goes on until it breaks                *)
SpecPaginateLive ==
    SpecPaginate /\ WF_vars(paginate_call) /\ WF_vars(paginate_fetch)

InitResources ==
    /\ NothingApplied
    /\ Untouched
    /\ ClientConstructed(<<"https://gitea.example.com/api/v1">>, "secret-token",
                         None, None, DefaultTimeout)
    /\ json_exc_is_request_exc \in BOOLEAN
    /\ PaginateArgs(DefaultPageSize, NoMax, "{}")

----------------------------------------------------------------------------
(* Properties of the transport core *)

Is2xx(status) == 200 <= status /\ status < 300
GotResponse == lastResp.kind = "response"
IsApiError(exc) ==
    IsInstance(exc, "client.GiteaAPIError") \/ IsInstance(exc, "exceptions.GiteaAPIError")
CarriesStatus(exc, status) ==
    "status_code" \in DOMAIN exc.attrs /\ exc.attrs["status_code"] = status
IsConnectFailureError(exc) ==
    Len(exc.args) > 0 /\ exc.args[1] = ConnectMessage("x")[1]

(* C1: after any sequence of requests the transport configuration (base   *)
(* URL, credentials, timeout, session default headers) is the same as     *)
(* immediately after construction.                                        *)
C1_ConfigurationUnchanged ==
    Configuration(base_url, timeout, auth, headers) = constructed

(* C2: the content type of every outgoing request depends only on its own *)
(* payload: multipart and no JSON Content-Type with a file payload, the   *)
(* default Content-Type: application/json without one.                    *)
C2_ContentTypeFromOwnPayload ==
    lastReq.sent =>
        IF Truthy(lastReq.files)
        THEN /\ lastReq.encoding = "multipart"
             /\ "Content-Type" \in DOMAIN lastReq.wire
                    => lastReq.wire["Content-Type"] # AppJson
        ELSE /\ "Content-Type" \in DOMAIN lastReq.wire
             /\ lastReq.wire["Content-Type"] = AppJson

(* C3: for every response with a status outside 200-299, request returns  *)
(* no payload and raises an API error that carries the numeric status as  *)
(* a structured value.                                                    *)
C3_ApiErrorCarriesStatus ==
    (op = "request" /\ GotResponse /\ ~Is2xx(lastResp.status)) =>
        /\ outcome.kind = "raise"
        /\ IsApiError(outcome.exc)
        /\ CarriesStatus(outcome.exc, lastResp.status)

(* C4: a connection-level failure makes request raise an error that wraps *)
(* the underlying cause and whose classification differs from the one     *)
(* raised for any non-2xx server response.                                *)
C4_ConnectionErrorDistinct ==
    (op = "request" /\ lastResp.kind = "exception") =>
        /\ outcome.kind = "raise"
        /\ outcome.exc.context = lastResp.cause
        /\ \A r \in Responses :
            (r.kind = "response" /\ ~Is2xx(r.status)) =>
                outcome.exc.cls # RequestOutcome(r, json_exc_is_request_exc).exc.cls

(* C5: get_label answered with 404 raises an error of the not-found       *)
(* classification; answered with 500 it raises a generic API error with   *)
(* status 500 that is not of the not-found classification.                *)
C5_GetLabelNotFound ==
    (op = "get_label" /\ GotResponse) =>
        /\ lastResp.status = 404 =>
            /\ outcome.kind = "raise"
            /\ IsInstance(outcome.exc, "exceptions.GiteaNotFoundError")
        /\ lastResp.status = 500 =>
            /\ outcome.kind = "raise"
            /\ IsApiError(outcome.exc)
            /\ ~IsInstance(outcome.exc, "exceptions.GiteaNotFoundError")

(* C6: whenever a response with a status code was received, the outcome   *)
(* of request is a returned payload or an API error for that status,      *)
(* never the connection-failure error.                                    *)
C6_ConnectErrorOnlyWithoutResponse ==
    (op = "request" /\ GotResponse) =>
        \/ outcome.kind = "return"
        \/ /\ outcome.kind = "raise"
           /\ IsApiError(outcome.exc)
           /\ ~IsConnectFailureError(outcome.exc)
           /\ outcome.exc.args[2] = ToString(lastResp.status)

(* the three-step fallback: message field, raw text, generic status string *)
ThreeStepMessage(resp) ==
    IF resp.json.type = "dict" /\ resp.json.d["message"] # Missing
    THEN <<resp.json.d["message"]>>
    ELSE IF resp.text # EmptyText THEN resp.text
    ELSE <<"HTTP ", ToString(resp.status)>>

(* C7: the message of the API error for a non-2xx response is the body's  *)
(* message field when the body is JSON and has one, otherwise the raw     *)
(* response text when non-empty, otherwise the generic status string.     *)
C7_MessageFallback ==
    (op = "request" /\ GotResponse /\ ~Is2xx(lastResp.status)) =>
        /\ outcome.kind = "raise"
        /\ outcome.exc.args =
            <<"API error (", ToString(lastResp.status), "): ">> \o ThreeStepMessage(lastResp)

(* C8: for every 2xx response request returns without raising: an empty   *)
(* mapping for 204, the raw empty payload for another 2xx with an empty   *)
(* body, the decoded JSON for another 2xx with a non-empty body.          *)
C8_SuccessReturns ==
    (op = "request" /\ GotResponse /\ Is2xx(lastResp.status)) =>
        /\ outcome.kind = "return"
        /\ outcome.value =
            IF lastResp.status = 204 THEN EmptyMapping
            ELSE IF lastResp.text = EmptyText THEN RawBytesEmpty
            ELSE lastResp.json

----------------------------------------------------------------------------
(* Properties of paginate_results *)

RECURSIVE Flatten(_)
Flatten(pages) == IF pages = << >> THEN << >> ELSE Head(pages) \o Flatten(Tail(pages))

PageLengths == [i \in 1..Len(fetched) |-> Len(fetched[i])]

(* C9: fetch_func is called with pages 1, 2, 3, ... in order with no gap  *)
(* or repeat, never with page 0, and with the same page size and the same *)
(* extra arguments on every call.                                         *)
C9_PagesInOrder ==
    \A i \in 1..Len(calls) :
        /\ calls[i].page = i
        /\ calls[i].limit = page_size
        /\ calls[i].kwargs = kwargs

C9_Witness ==
    /\ Len(calls) = 3
    /\ kwargs # "{}"
    /\ pc = "done"

(* C10: with no maximum configured, paginate_results stops immediately    *)
(* after the first page shorter than the page size, makes no further      *)
(* fetch, and returns the concatenation in fetch order of all the pages   *)
(* fetched; pages of 30, 30, 12 items with page size 30 give exactly 72   *)
(* items after exactly 3 fetches.                                         *)
C10_StopsAtShortPage ==
    max_items = NoMax =>
        /\ \A i \in 1..Len(fetched) :
            Len(fetched[i]) < page_size <=> (i = Len(fetched) /\ pc = "done")
        /\ pc = "done" => results = Flatten(fetched)
        /\ (page_size = 30 /\ PageLengths = <<30, 30, 12>>) =>
            /\ pc = "done"
            /\ Len(results) = 72
            /\ Len(calls) = 3

C10_Witness ==
    /\ max_items = NoMax
    /\ page_size = 30
    /\ PageLengths = <<30, 30, 12>>
    /\ pc = "done"
    /\ Len(results) = 72

Ceil(a, b) == (a + b - 1) \div b
AllPagesFull == \A i \in 1..Len(fetched) : Len(fetched[i]) = page_size
Prefix(s, n) == SubSeq(s, 1, n)

(* C11: when every page is full and max_items = m >= 1, paginate_results  *)
(* returns exactly the first m items of the concatenated pages and makes  *)
(* no fetch after the accumulated count first reaches m, which is after   *)
(* exactly ceil(m / page_size) fetches; page size 30 and m = 50 give      *)
(* exactly 50 items.                                                      *)
C11_MaxItemsExact ==
    (max_items # NoMax /\ max_items[1] >= 1 /\ AllPagesFull) =>
        /\ pc = "done" =>
            /\ results = Prefix(Flatten(fetched), max_items[1])
            /\ Len(results) = max_items[1]
            /\ Len(calls) = Ceil(max_items[1], page_size)
        /\ Len(calls) <= Ceil(max_items[1], page_size)
        /\ Len(calls) = Ceil(max_items[1], page_size) => pc = "done"

C11_Witness ==
    /\ max_items = <<50>>
    /\ page_size = 30
    /\ AllPagesFull
    /\ pc = "done"
    /\ Len(results) = 50
    /\ Len(calls) = 2

(* C12: whenever a maximum item count is configured (any non-negative     *)
(* integer, 0 included), the returned list never has more items than the  *)
(* maximum.                                                               *)
C12_NeverMoreThanMax ==
    (max_items # NoMax /\ pc = "done") => Len(results) <= max_items[1]

(* C13: an empty page ends the call, which returns exactly the items of   *)
(* the earlier pages; when the very first page is empty the result is an  *)
(* empty list after exactly one fetch.                                    *)
C13_EmptyPageStops ==
    \A i \in 1..Len(fetched) :
        fetched[i] = << >> =>
            /\ i = Len(fetched)
            /\ pc = "done"
            /\ results = Flatten(Prefix(fetched, i - 1))
            /\ i = 1 => (results = << >> /\ Len(calls) = 1)

C13_Witness ==
    /\ pc = "done"
    /\ Len(fetched) = 3
    /\ fetched[3] = << >>
    /\ Len(results) = 2 * page_size

(* the fetch budget of the model is used up by pages none of which is     *)
(* empty or short, with no positive max_items within the budget           *)
FetchBudgetUsed ==
    /\ Len(calls) = MaxFetches
    /\ \A i \in 1..Len(fetched) : Len(fetched[i]) >= page_size
    /\ ~(max_items # NoMax /\ max_items[1] \in 1..MaxFetches)

(* C29: paginate_results terminates whenever page_size >= 1 and either a  *)
(* positive max_items is configured (then after at most max_items         *)
(* fetches, whatever the page-fetch function returns) or the page-fetch   *)
(* function eventually returns an empty page or a page shorter than       *)
(* page_size.                                                             *)
C29_PaginateTerminates ==
    /\ []((max_items # NoMax /\ max_items[1] >= 1) =>
            /\ Len(calls) <= max_items[1]
            /\ Len(calls) = max_items[1] => pc = "done")
    /\ []((fetched # << >> /\ Len(fetched[Len(fetched)]) < page_size) => pc = "done")
    /\ <>(pc = "done" \/ FetchBudgetUsed)
C29_Witness ==
    /\ pc = "done" /\ page_size = 1 /\ max_items = <<2>>
    /\ Len(calls) = 2 /\ Len(fetched[1]) = 1 /\ Len(fetched[2]) = 2
    /\ Len(results) = 2

----------------------------------------------------------------------------
(* Decoded payloads with nesting: every Python value is a record tagged   *)
(* with its type; a dict is a function whose domain is the keys present,  *)
(* a str is a sequence of tokens, an object carries its attributes in f.  *)

PyNone == [type |-> "NoneType"]
PyStr(s) == [type |-> "str", s |-> s]
PyInt(n) == [type |-> "int", n |-> n]
PyFalse == [type |-> "bool", b |-> FALSE]
PyTrue == [type |-> "bool", b |-> TRUE]
PyTuple(xs) == [type |-> "tuple", xs |-> xs]
PyDict(f) == [type |-> "dict", f |-> f]
PyList(xs) == [type |-> "list", xs |-> xs]
EmptyDict == PyDict(EmptyDictFn)
EmptyList == PyList(<< >>)

(* bool(v) *)
PyTruthy(v) ==
    CASE v.type = "NoneType" -> FALSE
      [] v.type = "str" -> v.s # << >>
      [] v.type = "int" -> v.n # 0
      [] v.type = "bool" -> v.b
      [] v.type = "dict" -> DOMAIN v.f # {}
      [] v.type = "list" -> v.xs # << >>
      [] OTHER -> TRUE

(* data.get(key, default) on a dict *)
Get(data, key, default) ==
    IF data.type = "dict" /\ key \in DOMAIN data.f THEN data.f[key] ELSE default

NoAttribute(type, attr) ==
    Propagated("AttributeError", <<"'", type, "' object has no attribute '", attr, "'">>)

(* the items a for loop over v visits: the elements of a list, the keys   *)
(* of a dict, the characters of a str (one per token here: each is a str) *)
Iterate(v) ==
    CASE v.type = "list" -> Return(v.xs)
      [] v.type = "dict" ->
            LET n == Cardinality(DOMAIN v.f)
                keys == CHOOSE s \in [1..n -> DOMAIN v.f] :
                            \A i, j \in 1..n : s[i] = s[j] => i = j
            IN Return([i \in 1..n |-> PyStr(<<keys[i]>>)])
      [] v.type = "str" -> Return([i \in 1..Len(v.s) |-> PyStr(<<v.s[i]>>)])
      [] OTHER -> Raise(Propagated("TypeError",
                                   <<"'", v.type, "' object is not iterable">>))

----------------------------------------------------------------------------
(* Dates: datetime.fromisoformat over tokenised text. A numeral, a         *)
(* separator, the letter Z and a UTC offset are each one token.           *)

NumeralValue ==
    "00" :> 0 @@ "01" :> 1 @@ "02" :> 2 @@ "10" :> 10 @@ "13" :> 13 @@ "15" :> 15 @@
    "25" :> 25 @@ "30" :> 30 @@ "2024" :> 2024
OffsetMinutes == "+00:00" :> 0 @@ "+08:00" :> 480 @@ "+99:00" :> 5940

(* str.replace(old, new), for an old that is a token of its own *)
Replace(text, old, new) ==
    [i \in 1..Len(text) |-> IF text[i] = old THEN new ELSE text[i]]

fromisoformat(text) ==
    LET IsNumeral(tok, width) ==
            /\ tok \in DOMAIN NumeralValue
            /\ (width = 4) <=> (NumeralValue[tok] >= 1000)
        Shaped ==
            /\ Len(text) \in {5, 11, 12}
            /\ IsNumeral(text[1], 4) /\ text[2] = "-" /\ IsNumeral(text[3], 2)
            /\ text[4] = "-" /\ IsNumeral(text[5], 2)
            /\ Len(text) >= 11 =>
                /\ text[6] \in {"T", " "}
                /\ IsNumeral(text[7], 2) /\ text[8] = ":" /\ IsNumeral(text[9], 2)
                /\ text[10] = ":" /\ IsNumeral(text[11], 2)
            /\ Len(text) = 12 => text[12] \in DOMAIN OffsetMinutes
        TimeField(i) == IF Len(text) >= 11 THEN NumeralValue[text[i]] ELSE 0
        dt == [type |-> "datetime",
               year |-> NumeralValue[text[1]], month |-> NumeralValue[text[3]],
               day |-> NumeralValue[text[5]],
               hour |-> TimeField(7), minute |-> TimeField(9), second |-> TimeField(11),
               utcoffset |-> IF Len(text) = 12 THEN <<OffsetMinutes[text[12]]>> ELSE << >>]
        IsLeap(y) == (y % 4 = 0 /\ y % 100 # 0) \/ y % 400 = 0
        DaysInMonth(y, m) ==
            IF m = 2 THEN (IF IsLeap(y) THEN 29 ELSE 28)
            ELSE IF m \in {4, 6, 9, 11} THEN 30 ELSE 31
        ValueError(message) == Raise(Propagated("ValueError", message))
    IN  IF ~Shaped THEN ValueError(<<"Invalid isoformat string: ">> \o text)
        ELSE IF dt.month \notin 1..12 THEN ValueError(<<"month must be in 1..12">>)
        ELSE IF dt.day \notin 1..DaysInMonth(dt.year, dt.month)
             THEN ValueError(<<"day is out of range for month">>)
        ELSE IF dt.hour \notin 0..23 THEN ValueError(<<"hour must be in 0..23">>)
        ELSE IF dt.minute \notin 0..59 THEN ValueError(<<"minute must be in 0..59">>)
        ELSE IF dt.second \notin 0..59 THEN ValueError(<<"second must be in 0..59">>)
        ELSE IF dt.utcoffset # << >> /\ dt.utcoffset[1] >= 24 * 60
             THEN ValueError(<<"offset must be a timedelta strictly between">>)
        ELSE Return(dt)

(* datetime.isoformat() of a value without microseconds *)
isoformat(dt) ==
    LET Numeral(n) == CHOOSE tok \in DOMAIN NumeralValue : NumeralValue[tok] = n
    IN  <<Numeral(dt.year), "-", Numeral(dt.month), "-", Numeral(dt.day), "T",
          Numeral(dt.hour), ":", Numeral(dt.minute), ":", Numeral(dt.second)>>
        \o (IF dt.utcoffset = << >> THEN << >>
            ELSE <<CHOOSE tok \in DOMAIN OffsetMinutes :
                        OffsetMinutes[tok] = dt.utcoffset[1]>>)

(* except (ValueError, TypeError): return None *)
CatchValueError(o) ==
    IF o.kind = "raise" /\ o.exc.cls \in {"ValueError", "TypeError"}
    THEN Return(PyNone) ELSE o

(* the _parse_date method every record class repeats *)
_parse_date(date_str) ==
    IF ~PyTruthy(date_str) THEN Return(PyNone)
    ELSE IF date_str.type # "str" THEN Raise(NoAttribute(date_str.type, "replace"))
    ELSE CatchValueError(fromisoformat(Replace(date_str.s, "Z", "+00:00")))

(* common.utils.parse_iso_datetime *)
parse_iso_datetime(date_str) ==
    IF ~PyTruthy(date_str) THEN Return(PyNone)
    ELSE IF date_str.type # "str" THEN Raise(NoAttribute(date_str.type, "endswith"))
    ELSE CatchValueError(fromisoformat(
            IF date_str.s[Len(date_str.s)] = "Z" THEN Replace(date_str.s, "Z", "+00:00")
            ELSE date_str.s))

----------------------------------------------------------------------------
(* Record classes. A constructor reads its payload in source order; parts *)
(* lists, in that order, the attributes whose value is computed and may   *)
(* raise, plain the attributes that are a bare data.get(name).            *)

Part(name, o) == [name |-> name, o |-> o]

(* the first exception raised by a sequence of evaluations, if any *)
FirstRaised(os) ==
    os[CHOOSE i \in DOMAIN os :
            os[i].kind = "raise" /\ \A j \in 1..(i - 1) : os[j].kind # "raise"]

Construct(cls, data, plain, parts) ==
    LET os == [i \in DOMAIN parts |-> parts[i].o]
        names == {parts[i].name : i \in DOMAIN parts}
        PartOf(n) == parts[CHOOSE i \in DOMAIN parts : parts[i].name = n]
    IN  IF data.type # "dict" THEN Raise(NoAttribute(data.type, "get"))
        ELSE IF \E i \in DOMAIN os : os[i].kind = "raise" THEN FirstRaised(os)
        ELSE Return([type |-> cls,
                     f |-> [n \in plain \cup names |->
                              IF n \in plain THEN Get(data, n, PyNone)
                              ELSE PartOf(n).o.value]])

DatePart(data, name, key) == Part(name, _parse_date(Get(data, key, PyNone)))

User(data) ==
    Construct("User", data,
              {"id", "login", "full_name", "email", "avatar_url", "username"}, << >>)

RepositoryMeta(data) ==
    Construct("RepositoryMeta", data, {"id", "name", "owner", "full_name"}, << >>)

CommonLabel(data) ==
    Construct("common.Label", data, {"id", "name", "color", "description", "url"}, << >>)

Milestone(data) ==
    Construct("Milestone", data,
              {"id", "title", "description", "state", "open_issues", "closed_issues"},
              <<DatePart(data, "created_at", "created_at"),
                DatePart(data, "updated_at", "updated_at"),
                DatePart(data, "closed_at", "closed_at"),
                DatePart(data, "due_on", "due_on")>>)

CommonAttachment(data) ==
    Construct("common.Attachment", data,
              {"id", "name", "size", "download_count", "uuid", "browser_download_url"},
              <<DatePart(data, "created_at", "created")>>)

(* PullRequestMeta(data): data defaults to {} when it is None *)
PullRequestMeta(data) ==
    LET d == IF data = PyNone THEN EmptyDict ELSE data IN
    Construct("PullRequestMeta", d, {"merged"}, <<DatePart(d, "merged_at", "merged_at")>>)

New(cls, data) ==
    CASE cls = "User" -> User(data)
      [] cls = "Milestone" -> Milestone(data)
      [] cls = "RepositoryMeta" -> RepositoryMeta(data)
      [] cls = "PullRequestMeta" -> PullRequestMeta(data)
      [] cls = "common.Label" -> CommonLabel(data)
      [] cls = "common.Attachment" -> CommonAttachment(data)

(* self.key = X(data.get(key, {})) if data.get(key) else None *)
NestedPart(cls, data, key) ==
    Part(key, IF PyTruthy(Get(data, key, PyNone)) THEN New(cls, Get(data, key, EmptyDict))
              ELSE Return(PyNone))

(* self.key = []; for item in data.get(key, []): self.key.append(X(item)) *)
CollectionPart(cls, data, key) ==
    LET it == Iterate(Get(data, key, EmptyList))
        made == [i \in DOMAIN it.value |-> New(cls, it.value[i])]
    IN Part(key, IF it.kind = "raise" THEN it
                 ELSE IF \E i \in DOMAIN made : made[i].kind = "raise"
                      THEN FirstRaised(made)
                 ELSE Return(PyList([i \in DOMAIN made |-> made[i].value])))

Issue(data) ==
    Construct("Issue", data,
              {"id", "number", "title", "body", "state", "url", "html_url",
               "pin_order", "ref"},
              <<Part("comments", Return(Get(data, "comments", PyInt(0)))),
                NestedPart("User", data, "user"),
                NestedPart("User", data, "assignee"),
                CollectionPart("User", data, "assignees"),
                NestedPart("Milestone", data, "milestone"),
                NestedPart("RepositoryMeta", data, "repository"),
                DatePart(data, "created_at", "created_at"),
                DatePart(data, "updated_at", "updated_at"),
                DatePart(data, "closed_at", "closed_at"),
                DatePart(data, "due_date", "due_date"),
                NestedPart("PullRequestMeta", data, "pull_request"),
                CollectionPart("common.Label", data, "labels"),
                Part("is_locked", Return(Get(data, "is_locked", PyFalse)))>>)

Comment(data) ==
    Construct("Comment", data,
              {"id", "body", "html_url", "pull_request_url", "issue_url"},
              <<NestedPart("User", data, "user"),
                DatePart(data, "created_at", "created_at"),
                DatePart(data, "updated_at", "updated_at"),
                CollectionPart("common.Attachment", data, "attachments")>>)

Reaction(data) ==
    Construct("Reaction", data, {"id", "user_id", "content", "created_at"},
              <<NestedPart("User", data, "user")>>)

TimelineEvent(data) ==
    Construct("TimelineEvent", data,
              {"id", "type", "label", "milestone", "comment", "commit", "ref",
               "ref_action", "review", "tracked_time"},
              <<DatePart(data, "created_at", "created_at"),
                NestedPart("User", data, "user"),
                NestedPart("User", data, "assignee"),
                Part("_raw_data", Return(data))>>)

----------------------------------------------------------------------------
(* Edit*Option records: __init__ keeps the keyword arguments (None when   *)
(* one is not given), to_dict emits a key for every attribute not None.   *)

EditIssueOption(given) ==
    [type |-> "EditIssueOption",
     f |-> [n \in {"title", "body", "assignee", "assignees", "milestone", "state",
                   "labels", "deadline", "ref"} |-> Get(given, n, PyNone)]]

(* self.color = color.lstrip("#") if color else None *)
EditLabelOption(given) ==
    LET color == Get(given, "color", PyNone) IN
    [type |-> "EditLabelOption",
     f |-> [n \in {"name", "color", "description", "exclusive"} |->
              IF n # "color" THEN Get(given, n, PyNone)
              ELSE IF PyTruthy(color) THEN PyStr(lstrip(color.s, "#")) ELSE PyNone]]

EditMilestoneOption(given) ==
    [type |-> "EditMilestoneOption",
     f |-> [n \in {"title", "description", "state", "due_on"} |-> Get(given, n, PyNone)]]

EditAttachmentOption(given) ==
    [type |-> "EditAttachmentOption", f |-> [n \in {"name"} |-> Get(given, n, PyNone)]]

(* to_dict of the four records; deadline and due_on go through isoformat() *)
to_dict(self) ==
    PyDict([k \in {n \in DOMAIN self.f : self.f[n] # PyNone} |->
              IF k \in {"deadline", "due_on"}
              THEN PyStr(isoformat(self.f[k])) ELSE self.f[k]])

----------------------------------------------------------------------------
(* common.utils.build_query_params *)

(* str(v) of the values that occur as parameters *)
str(v) ==
    CASE v.type = "str" -> v.s
      [] v.type = "int" -> <<ToString(v.n)>>
      [] v.type = "bool" -> IF v.b THEN <<"True">> ELSE <<"False">>
      [] v.type = "NoneType" -> <<"None">>
      [] v.type = "datetime" -> Replace(isoformat(v), "T", " ")

(* str.lower(), by token: the capitalised tokens that occur *)
lower(text) ==
    LET Lowered == "True" :> "true" @@ "False" :> "false" @@ "None" :> "none"
    IN [i \in 1..Len(text) |->
            IF text[i] \in DOMAIN Lowered THEN Lowered[text[i]] ELSE text[i]]

(* sep.join(texts) *)
RECURSIVE join(_, _)
join(sep, texts) ==
    IF texts = << >> THEN EmptyText
    ELSE IF Len(texts) = 1 THEN texts[1]
    ELSE texts[1] \o <<sep>> \o join(sep, Tail(texts))

build_query_params_keeping_case(params) ==
    PyDict([key \in {k \in DOMAIN params.f : params.f[k] # PyNone} |->
              LET value == params.f[key] IN
              PyStr(CASE value.type \in {"list", "tuple"} ->
                            join(",", [i \in DOMAIN value.xs |-> str(value.xs[i])])
                      [] value.type = "datetime" -> isoformat(value)
                      [] OTHER -> str(value))])
build_query_params(params) ==
    PyDict([key \in {k \in DOMAIN params.f : params.f[k] # PyNone} |->
              LET value == params.f[key] IN
              PyStr(CASE value.type = "bool" -> lower(str(value))
                      [] value.type \in {"list", "tuple"} ->
                            join(",", [i \in DOMAIN value.xs |-> str(value.xs[i])])
                      [] value.type = "datetime" -> isoformat(value)
                      [] OTHER -> str(value))])

----------------------------------------------------------------------------
(* dongjak_math_utils.core. A number is an int, or a float given as the   *)
(* fraction num/den in lowest terms that it equals; exact says whether    *)
(* the float holds that fraction exactly (den is a power of two) or its   *)
(* nearest neighbour.                                                     *)

PyFloat(num, den) ==
    LET Abs(n) == IF n < 0 THEN -n ELSE n
        g == CHOOSE d \in 1..(Abs(num) + Abs(den)) :
                /\ num % d = 0 /\ den % d = 0
                /\ \A e \in (d + 1)..(Abs(num) + Abs(den)) : ~(num % e = 0 /\ den % e = 0)
        sign == IF den < 0 THEN -1 ELSE 1
        d == Abs(den) \div g
    IN [type |-> "float", num |-> sign * (num \div g), den |-> d,
        exact |-> d \in {1, 2, 4, 8, 16}]

(* x + y, x - y and x * y of Python: an int when both are, else a float; *)
(* an int has no width, so nothing wraps                                  *)
ArithWrapping(sym, x, y) ==
    LET num == CASE sym = "+" -> x.n + y.n
                 [] sym = "-" -> x.n - y.n
                 [] sym = "*" -> x.n * y.n
    IN PyInt(((num + 4) % 8) - 4)
Arith(sym, x, y) ==
    LET Num(v) == IF v.type = "int" THEN v.n ELSE v.num
        Den(v) == IF v.type = "int" THEN 1 ELSE v.den
        num == CASE sym = "+" -> Num(x) * Den(y) + Num(y) * Den(x)
                 [] sym = "-" -> Num(x) * Den(y) - Num(y) * Den(x)
                 [] sym = "*" -> Num(x) * Num(y)
    IN IF x.type = "int" /\ y.type = "int" THEN PyInt(num)
       ELSE PyFloat(num, Den(x) * Den(y))

(* x / y of Python between ints: always a float, ZeroDivisionError for y = 0 *)
truediv(x, y) ==
    IF y.n = 0 THEN Raise(Propagated("ZeroDivisionError", <<"division by zero">>))
    ELSE Return(PyFloat(x.n, y.n))

add(a, b) == Return(Arith("+", a, b))
subtract(a, b) == Return(Arith("-", a, b))
multiply(a, b) == Return(Arith("*", a, b))

(* the message of core.py:100 is Chinese for "the divisor must not be 0"; *)
(* it is written here in pinyin                                           *)
divide_unguarded(a, b) == truediv(a, b)
divide(a, b) ==
    IF b.n = 0 THEN Raise(Propagated("ZeroDivisionError", <<"chushu buneng wei 0">>))
    ELSE truediv(a, b)

----------------------------------------------------------------------------
(* milestones.utils.sort_milestones_by_due_date *)

(* a < b between two datetimes of the years 2000..2099 or datetime.max;   *)
(* naive values compare field by field, aware values by their instant     *)
Earlier(a, b) ==
    LET Fields(d) == <<d.year, d.month, d.day, d.hour, d.minute, d.second>>
        Lex(x, y) == \E i \in 1..6 : x[i] < y[i] /\ \A j \in 1..(i - 1) : x[j] = y[j]
        DaysBefore == <<0, 31, 59, 90, 120, 151, 181, 212, 243, 273, 304, 334>>
        Days(d) == 365 * (d.year - 2000) + ((d.year - 2000 + 3) \div 4)
                   + DaysBefore[d.month]
                   + (IF d.year % 4 = 0 /\ d.month > 2 THEN 1 ELSE 0) + d.day
        Minutes(d) == (Days(d) * 24 + d.hour) * 60 + d.minute - d.utcoffset[1]
    IN IF a.utcoffset = << >> THEN Lex(Fields(a), Fields(b))
       ELSE Minutes(a) < Minutes(b) \/ (Minutes(a) = Minutes(b) /\ a.second < b.second)

(* sorted(milestones, key=get_due_date, reverse=not ascending): stable in *)
(* both directions; comparing a naive with an aware key raises, and a     *)
(* sort of keys of both kinds has to compare two such                     *)
sort_milestones_by_due_date(milestones, ascending) ==
    LET DatetimeMax == [type |-> "datetime", year |-> 9999, month |-> 12, day |-> 31,
                        hour |-> 23, minute |-> 59, second |-> 59, utcoffset |-> << >>]
        n == Len(milestones)
        get_due_date(i) == IF PyTruthy(milestones[i].f["due_on"])
                           THEN milestones[i].f["due_on"] ELSE DatetimeMax
        Precedes(i, j) ==
            IF ascending
            THEN \/ Earlier(get_due_date(i), get_due_date(j))
                 \/ ~Earlier(get_due_date(j), get_due_date(i)) /\ i < j
            ELSE \/ Earlier(get_due_date(j), get_due_date(i))
                 \/ ~Earlier(get_due_date(i), get_due_date(j)) /\ i < j
        rank(i) == 1 + Cardinality({j \in 1..n : Precedes(j, i)})
    IN IF \E i, j \in 1..n :
            (get_due_date(i).utcoffset = << >>) # (get_due_date(j).utcoffset = << >>)
       THEN Raise(Propagated("TypeError",
                    <<"can't compare offset-naive and offset-aware datetimes">>))
       ELSE Return(PyList([p \in 1..n |-> milestones[CHOOSE i \in 1..n : rank(i) = p]]))

----------------------------------------------------------------------------
(* common.utils.setup_logger *)

MaxCalls == 3

(* getattr(logging, name, None) for the names that occur: the levels are  *)
(* ints, BASIC_FORMAT is a str, anything else is not an attribute         *)
LoggingAttribute(name) ==
    LET Levels == "DEBUG" :> 10 @@ "INFO" :> 20 @@ "WARN" :> 30 @@ "WARNING" :> 30
                  @@ "ERROR" :> 40 @@ "CRITICAL" :> 50 @@ "NOTSET" :> 0
    IN IF name \in DOMAIN Levels THEN PyInt(Levels[name])
       ELSE IF name = "BASIC_FORMAT" THEN PyStr(<<"%(levelname)s:%(name)s:%(message)s">>)
       ELSE PyNone

(* str.upper() of the level names that occur *)
upper(name) ==
    LET Raised == "debug" :> "DEBUG" @@ "warn" :> "WARN" @@ "verbose" :> "VERBOSE"
                  @@ "basic_format" :> "BASIC_FORMAT"
    IN IF name \in DOMAIN Raised THEN Raised[name] ELSE name

(* logging.FileHandler(log_file) opens the file at once: a path in a      *)
(* directory that does not exist raises                                   *)
FileHandler(log_file, call) ==
    IF log_file = "missing/sdk.log"
    THEN Raise(Propagated("FileNotFoundError",
                          <<"[Errno 2] No such file or directory: ", log_file>>))
    ELSE Return([kind |-> "FileHandler", call |-> call])

setup_logger ==
    \E level \in {"INFO", "debug", "warn", "verbose", "basic_format"},
       log_file \in {None, "", "sdk.log", "missing/sdk.log"} :
        LET numeric_level == LoggingAttribute(upper(level))
            console_handler == [kind |-> "StreamHandler", call |-> setup_calls + 1]
            file_handler == FileHandler(log_file, setup_calls + 1)
        IN /\ setup_calls < MaxCalls
           /\ setup_calls' = setup_calls + 1
           /\ arg' = [class |-> "setup_logger",
                      data |-> [level |-> level, log_file |-> log_file]]
           /\ IF numeric_level.type # "int"
              THEN /\ ret' = Raise(Propagated("ValueError",
                                              <<"Invalid log level: ", level>>))
                   /\ UNCHANGED <<logger_level, logger_handlers, installed>>
              ELSE /\ logger_level' = numeric_level.n
                   /\ IF Truthy(log_file) /\ file_handler.kind = "raise"
                      THEN /\ logger_handlers' = <<console_handler>>
                           /\ ret' = file_handler
                           /\ UNCHANGED installed
                      ELSE /\ logger_handlers' =
                                <<console_handler>> \o
                                (IF Truthy(log_file) THEN <<file_handler.value>> ELSE << >>)
                           /\ installed' = logger_handlers'
                           /\ ret' = Return([type |-> "Logger"])
           /\ UNCHANGED <<clientVars, pageVars, running>>

----------------------------------------------------------------------------
(* Inputs of the record classes, the Option records and the date parser   *)

Absent == [type |-> "absent"]
(* the dict holding the keys of g that were given a value *)
MakeDict(g) == PyDict([k \in {x \in DOMAIN g : g[x] # Absent} |-> g[k]])

UtcDate == <<"2024", "-", "01", "-", "15", "T", "10", ":", "30", ":", "00", "Z">>
ValidDates ==
    {UtcDate,
     <<"2024", "-", "01", "-", "15", " ", "10", ":", "30", ":", "00", "+08:00">>,
     <<"2024", "-", "02", "-", "01">>}
UnparsableDates ==
    {<<"not-a-date">>,
     <<"Z">>,
     <<"2024", "-", "13", "-", "01", "T", "00", ":", "00", ":", "00", "Z">>,
     <<"2024", "-", "02", "-", "30", "T", "00", ":", "00", ":", "00", "Z">>,
     <<"2024", "-", "01", "-", "15", "T", "25", ":", "00", ":", "00", "Z">>,
     <<"2024", "-", "01", "-", "15", "T", "10", ":", "30", ":", "00", "+99:00">>,
     <<"2024", "-", "01", "-", "15", "T", "10", ":", "30", ":", "00", "Z", "Z">>}

MaxOperand == 3
MaxListLen == 3

RECURSIVE ListsUpTo(_, _)
ListsUpTo(S, n) ==
    IF n = 0 THEN {<< >>}
    ELSE LET shorter == ListsUpTo(S, n - 1) IN
         shorter \cup {Append(xs, x) : xs \in {l \in shorter : Len(l) = n - 1}, x \in S}

BobJson == PyDict("id" :> PyInt(2) @@ "login" :> PyStr(<<"bob">>))

ModelInputs ==
    LET Input(cls, data) == [class |-> cls, data |-> data]
        Texts(S) == {Absent} \cup {PyStr(t) : t \in S}
        DateStrings == {PyStr(t) : t \in {EmptyText} \cup ValidDates \cup UnparsableDates}
        DateValues == {Absent} \cup DateStrings
        FewDateValues == {Absent, PyStr(EmptyText), PyStr(UtcDate), PyStr(<<"not-a-date">>)}
        MilestoneJson == PyDict("id" :> PyInt(3) @@ "title" :> PyStr(<<"v1">>)
                                @@ "due_on" :> PyStr(UtcDate))
        RepositoryJson == PyDict("id" :> PyInt(5) @@ "name" :> PyStr(<<"widgets">>))
        PullRequestJson == PyDict("merged" :> PyFalse @@ "merged_at" :> PyNone)
        CommonLabelJson == PyDict("id" :> PyInt(7) @@ "name" :> PyStr(<<"bug">>))
        AttachmentJson == PyDict("id" :> PyInt(9) @@ "name" :> PyStr(<<"a.txt">>)
                                 @@ "created" :> PyStr(UtcDate))
        UserValues == {Absent, PyNone, EmptyDict, BobJson, PyStr(<<"bob">>)}
        AssigneeValues == {Absent, EmptyDict, BobJson}
        MilestoneValues == {Absent, EmptyDict, MilestoneJson}
        Deadline == fromisoformat(<<"2024", "-", "01", "-", "15", "T", "10", ":", "30",
                                    ":", "00">>).value
    IN
    {Input("Issue",
           MakeDict("id" :> PyInt(11) @@ "user" :> user @@ "assignee" :> assignee
                    @@ "milestone" :> milestone @@ "repository" :> repository
                    @@ "pull_request" :> pull_request @@ "labels" :> labels
                    @@ "assignees" :> assignees @@ "created_at" :> created_at)) :
        user \in UserValues, assignee \in AssigneeValues, milestone \in MilestoneValues,
        repository \in {Absent, EmptyDict, RepositoryJson},
        pull_request \in {Absent, EmptyDict, PullRequestJson},
        labels \in {Absent, PyList(<<CommonLabelJson>>), PyNone},
        assignees \in {Absent, PyList(<<BobJson, BobJson>>), PyNone},
        created_at \in {Absent, PyStr(<<"not-a-date">>)}}
    \cup
    {Input("Comment",
           MakeDict("id" :> PyInt(21) @@ "user" :> user @@ "attachments" :> attachments
                    @@ "created_at" :> created_at @@ "updated_at" :> updated_at)) :
        user \in UserValues,
        attachments \in {Absent, EmptyList, PyList(<<AttachmentJson>>), PyNone},
        created_at \in DateValues, updated_at \in FewDateValues}
    \cup
    {Input("Reaction",
           MakeDict("id" :> PyInt(31) @@ "user" :> user @@ "created_at" :> created_at)) :
        user \in UserValues, created_at \in DateValues}
    \cup
    {Input("TimelineEvent",
           MakeDict("id" :> PyInt(41) @@ "user" :> user @@ "assignee" :> assignee
                    @@ "milestone" :> milestone @@ "created_at" :> created_at)) :
        user \in UserValues, assignee \in AssigneeValues, milestone \in MilestoneValues,
        created_at \in DateValues}
    \cup
    {Input("parse_iso_datetime", d) : d \in {PyNone} \cup DateStrings}
    \cup
    {Input("EditIssueOption",
           MakeDict("title" :> title @@ "body" :> body @@ "assignee" :> assignee
                    @@ "assignees" :> assignees @@ "milestone" :> milestone
                    @@ "state" :> state @@ "labels" :> labels
                    @@ "deadline" :> deadline @@ "ref" :> ref)) :
        title \in Texts({EmptyText, <<"New">>}), body \in Texts({<<"text">>}),
        assignee \in Texts({<<"bob">>}),
        assignees \in {Absent, EmptyList, PyList(<<PyStr(<<"bob">>)>>)},
        milestone \in {Absent, PyInt(0), PyInt(3)}, state \in Texts({<<"closed">>}),
        labels \in {Absent, EmptyList}, deadline \in {Absent, Deadline},
        ref \in Texts({<<"main">>})}
    \cup
    {Input("EditLabelOption",
           MakeDict("name" :> name @@ "color" :> color
                    @@ "description" :> description @@ "exclusive" :> exclusive)) :
        name \in Texts({<<"bug">>}),
        color \in Texts({EmptyText, <<"#">>, <<"#", "ff0000">>, <<"ff0000">>}),
        description \in Texts({EmptyText}), exclusive \in {Absent, PyFalse}}
    \cup
    {Input("EditMilestoneOption",
           MakeDict("title" :> title @@ "description" :> description
                    @@ "state" :> state @@ "due_on" :> due_on)) :
        title \in Texts({EmptyText, <<"v2">>}), description \in Texts({<<"text">>}),
        state \in Texts({<<"closed">>}), due_on \in {Absent, Deadline}}
    \cup
    {Input("EditAttachmentOption", MakeDict("name" :> name)) :
        name \in Texts({EmptyText, <<"b.txt">>})}
    \cup
    {Input("sort_milestones_by_due_date",
           [ascending |-> ascending,
            milestones |-> [i \in DOMAIN due |->
                [type |-> "Milestone",
                 f |-> "id" :> PyInt(i) @@ "due_on" :> _parse_date(due[i]).value]]]) :
        ascending \in BOOLEAN,
        due \in ListsUpTo({PyNone, PyStr(<<"2024", "-", "02", "-", "01">>),
                           PyStr(<<"2024", "-", "01", "-", "15">>), PyStr(UtcDate)},
                          MaxListLen)}
    \cup
    {Input(f, [a |-> PyInt(a), b |-> PyInt(b)]) :
        f \in {"add", "subtract", "multiply", "divide"},
        a \in (-MaxOperand)..MaxOperand, b \in (-MaxOperand)..MaxOperand}
    \cup
    {Input("build_query_params",
           MakeDict("state" :> state @@ "assigned" :> assigned @@ "labels" :> labels
                    @@ "since" :> since @@ "page" :> page_no)) :
        state \in {Absent, PyNone, PyStr(EmptyText), PyStr(<<"open">>)},
        assigned \in {Absent, PyNone, PyFalse, PyTrue},
        labels \in {Absent, PyNone, EmptyList, PyList(<<PyStr(<<"bug">>), PyStr(<<"ui">>)>>),
                    PyTuple(<<PyInt(1), PyTrue, PyNone>>), PyList(<<Deadline>>)},
        since \in {Absent, PyNone, Deadline},
        page_no \in {Absent, PyInt(0), PyInt(2)}}

(* the constructor or function named by arg is applied to it, once *)
Applied(cls, result) ==
    /\ arg.class = cls
    /\ ret = NoReturn
    /\ ret' = result
    /\ UNCHANGED <<arg, clientVars, pageVars, envVars>>

NewIssue == Applied("Issue", Issue(arg.data))
NewComment == Applied("Comment", Comment(arg.data))
NewReaction == Applied("Reaction", Reaction(arg.data))
NewTimelineEvent == Applied("TimelineEvent", TimelineEvent(arg.data))
call_parse_iso_datetime == Applied("parse_iso_datetime", parse_iso_datetime(arg.data))
EditIssueOption_to_dict ==
    Applied("EditIssueOption", Return(to_dict(EditIssueOption(arg.data))))
EditLabelOption_to_dict ==
    Applied("EditLabelOption", Return(to_dict(EditLabelOption(arg.data))))
EditMilestoneOption_to_dict ==
    Applied("EditMilestoneOption", Return(to_dict(EditMilestoneOption(arg.data))))
EditAttachmentOption_to_dict ==
    Applied("EditAttachmentOption", Return(to_dict(EditAttachmentOption(arg.data))))
call_build_query_params ==
    Applied("build_query_params", Return(build_query_params(arg.data)))
call_sort_milestones_by_due_date ==
    Applied("sort_milestones_by_due_date",
            sort_milestones_by_due_date(arg.data.milestones, arg.data.ascending))
call_add == Applied("add", add(arg.data.a, arg.data.b))
call_subtract == Applied("subtract", subtract(arg.data.a, arg.data.b))
call_multiply == Applied("multiply", multiply(arg.data.a, arg.data.b))
call_divide == Applied("divide", divide(arg.data.a, arg.data.b))

----------------------------------------------------------------------------
(* Resource clients: IssuesAPI and LabelsAPI *)

(* a decoded JSON list with its items, and a decoded body with nesting *)
JListOf(items) == [type |-> "list", d |-> NoKeys, items |-> items]
JNested(py) == [type |-> py.type, d |-> NoKeys, py |-> py]
NotADict(type) == [type |-> type, d |-> NoKeys]

(* the value request returned, as the nested Python value it is *)
Decoded(v) ==
    IF "py" \in DOMAIN v THEN v.py
    ELSE IF v.type = "dict"
         THEN PyDict([k \in {x \in JsonKeys : v.d[x] # Missing} |->
                        IF v.d[k] = None THEN PyNone ELSE PyStr(<<v.d[k]>>)])
    ELSE IF v.type = "list"
         THEN PyList(IF "items" \in DOMAIN v THEN v.items ELSE <<PyInt(1), PyInt(2)>>)
    ELSE [type |-> v.type]

(* the items "for x in response" visits at the top level of a list call *)
ResponseItems(v) ==
    IF "py" \in DOMAIN v THEN Iterate(v.py).value
    ELSE IF "items" \in DOMAIN v THEN v.items
    ELSE IF v.type = "dict"
         THEN [i \in 1..Cardinality({x \in JsonKeys : v.d[x] # Missing}) |-> NotADict("str")]
    ELSE IF v.type = "list" THEN <<NotADict("int"), NotADict("int")>>
    ELSE << >>

(* a connection failure, or a 200 or a 404 with any of the bodies, or a 200 *)
(* with one of bodies                                                      *)
ResponsesWith(bodies) ==
    {r \in Responses : r.kind = "exception" \/ r.status \in {200, 404}}
    \cup {[kind |-> "response", status |-> 200, text |-> <<"...">>, json |-> b,
           cause |-> None] : b \in bodies}

GoodIssueJson ==
    PyDict("id" :> PyInt(11) @@ "number" :> PyInt(1) @@ "title" :> PyStr(<<"Crash">>)
           @@ "user" :> BobJson @@ "assignees" :> PyList(<<BobJson>>)
           @@ "created_at" :> PyStr(UtcDate))
(* a user given by name where an object is expected *)
BadUserIssueJson ==
    PyDict("id" :> PyInt(13) @@ "number" :> PyInt(3) @@ "user" :> PyStr(<<"bob">>))

(* for x in items: try: out.append(X(x)) except Exception: log *)
ParsedAbortOnError(o, parsed) ==
    IF o.kind = "raise" THEN o
    ELSE IF \E i \in DOMAIN parsed : parsed[i].kind = "raise" THEN FirstRaised(parsed)
    ELSE Return(PyList([i \in DOMAIN parsed |-> parsed[i].value]))
Parsed(o, parsed) ==
    LET Ok(x) == x.kind = "return"
        kept == SelectSeq(parsed, Ok)
    IN IF o.kind = "raise" THEN o
       ELSE Return(PyList([i \in DOMAIN kept |-> kept[i].value]))

(* logger.error(f"Error parsing ... data: {e}") for every item that raised *)
LoggedErrors(prefix, parsed) ==
    LET Failed(o) == o.kind = "raise"
        failed == SelectSeq(parsed, Failed)
    IN [i \in DOMAIN failed |-> prefix \o Str(failed[i].exc)]

(* what the constructor made of every item of the response, in order *)
IssuesParsed(o) ==
    IF o.kind = "raise" THEN << >>
    ELSE LET items == ResponseItems(o.value) IN [i \in DOMAIN items |-> Issue(items[i])]
LabelsParsed(o) ==
    IF o.kind = "raise" THEN << >>
    ELSE LET items == ResponseItems(o.value) IN [i \in DOMAIN items |-> Label(items[i])]

(* params: page always, limit and state only when truthy; << >> is None; *)
(* the values are the arguments themselves                                *)
ListParams(page_no, limit, state) ==
    PyDict([k \in {"page"} \cup (IF limit # NoMax /\ limit[1] # 0 THEN {"limit"} ELSE {})
                    \cup (IF Truthy(state) THEN {"state"} ELSE {}) |->
                IF k = "page" THEN PyInt(page_no)
                ELSE IF k = "limit" THEN PyInt(limit[1]) ELSE PyStr(<<state>>)])

(* the params search_issues builds from its arguments: page always, every *)
(* other argument only when truthy; labels and milestones joined, since   *)
(* and before through isoformat(), everything else as it was given        *)
SearchParams(given) ==
    PyDict([k \in {"page"} \cup {x \in DOMAIN given.f : PyTruthy(given.f[x])} |->
              IF k \in {"labels", "milestones"}
              THEN PyStr(join(",", [i \in DOMAIN given.f[k].xs |-> given.f[k].xs[i].s]))
              ELSE IF k \in {"since", "before"} THEN PyStr(isoformat(given.f[k]))
              ELSE given.f[k]])

get_issue ==
    \E owner \in {"acme", ""}, repo \in {"widgets", ""}, index \in IssueIndexes,
       resp \in ResponsesWith({JNested(GoodIssueJson), JNested(EmptyDict),
                               JNested(BadUserIssueJson)}) :
        /\ DoRequest("get_issue", "GET",
                     <<"repos/", owner, "/", repo, "/issues/", ToString(index)>>,
                     None, None, None, resp,
                     IF Outcome(resp).kind = "raise" THEN Outcome(resp)
                     ELSE Issue(Decoded(Outcome(resp).value)))
        /\ op_args' = RepoArgs(owner, repo)
        /\ parse_errors_logged' = << >>
        /\ UNCHANGED <<pageVars, pureVars, envVars>>

(* search_issues with state left at its default "open", and with q,      *)
(* priority_repo_id, owner, milestones, type_, before, created,           *)
(* mentioned, review_requested, reviewed, team and limit left at their    *)
(* defaults, which add no parameter                                       *)
search_issues ==
    \E labels \in {PyNone, EmptyList, PyList(<<PyStr(<<"bug">>), PyStr(<<"ui">>)>>)},
       since \in {PyNone, fromisoformat(<<"2024", "-", "01", "-", "15", "T", "10", ":",
                                          "30", ":", "00">>).value},
       assigned \in {PyFalse, PyTrue},
       resp \in {r \in Responses : r.kind = "exception"}
                \cup (ResponsesWith({JNested(PyList(<<GoodIssueJson>>))}) \ Responses) :
        /\ DoRequest("search_issues", "GET", <<"repos/issues/search">>,
                     None, None, None, resp,
                     Parsed(Outcome(resp), IssuesParsed(Outcome(resp))))
        /\ op_args' =
                [owner |-> None, repo |-> None,
                 params |-> SearchParams(PyDict(
                    "state" :> PyStr(<<"open">>) @@ "labels" :> labels
                    @@ "since" :> since @@ "assigned" :> assigned
                    @@ "reviewed" :> PyFalse @@ "page" :> PyInt(1)
                    @@ "limit" :> PyNone))]
        /\ parse_errors_logged' =
                LoggedErrors(<<"Error parsing issue data: ">>, IssuesParsed(Outcome(resp)))
        /\ UNCHANGED <<pageVars, pureVars, envVars>>

(* list_repo_issues with limit and every filter but state left at None *)
list_repo_issues ==
    \E owner \in Owners, repo \in Repos, state \in {None, "open"},
       resp \in ResponsesWith({JNested(PyList(xs)) :
                    xs \in ListsUpTo({GoodIssueJson, BadUserIssueJson}, MaxListLen)}) :
        /\ DoRequest("list_repo_issues", "GET", <<"repos/", owner, "/", repo, "/issues">>,
                     None, None, None, resp,
                     Parsed(Outcome(resp), IssuesParsed(Outcome(resp))))
        /\ op_args' = [owner |-> owner, repo |-> repo,
                       params |-> ListParams(1, NoMax, state)]
        /\ parse_errors_logged' =
                LoggedErrors(<<"Error parsing issue data: ">>, IssuesParsed(Outcome(resp)))
        /\ UNCHANGED <<pageVars, pureVars, envVars>>

list_labels ==
    \E owner \in Owners, repo \in Repos, limit \in {NoMax, <<DefaultPageSize>>},
       resp \in ResponsesWith({JListOf(xs) :
                    xs \in ListsUpTo({LabelJson, NotADict("str")}, MaxListLen)}) :
        /\ DoRequest("list_labels", "GET", <<"repos/", owner, "/", repo, "/labels">>,
                     None, None, None, resp,
                     Parsed(Outcome(resp), LabelsParsed(Outcome(resp))))
        /\ op_args' = [owner |-> owner, repo |-> repo,
                       params |-> ListParams(1, limit, None)]
        /\ parse_errors_logged' =
                LoggedErrors(<<"Error parsing label data: ">>, LabelsParsed(Outcome(resp)))
        /\ UNCHANGED <<pageVars, pureVars, envVars>>

----------------------------------------------------------------------------
(* Resource clients: SubscriptionsAPI *)

PyBool(b) == [type |-> "bool", d |-> NoKeys, bool |-> b]

(* "sub in text", for texts tokenised so that a number is a token of its own *)
Contains(text, token) == \E i \in 1..Len(text) : text[i] = token

(* the responses, and the error page of a proxy in front of the server,   *)
(* naming a backend status, under every status                            *)
SubscriptionResponses ==
    Responses \cup
    {[kind |-> "response", status |-> s,
      text |-> <<"upstream returned ", "404", " for /backend">>,
      json |-> NotJSON, cause |-> None] : s \in Statuses}

SubscriptionCheck(o) ==
    IF o.kind = "return" THEN Return(PyBool(TRUE))
    ELSE IF Contains(Str(o.exc), "404") THEN Return(PyBool(FALSE))
    ELSE o

check_subscription ==
    \E owner \in Owners, repo \in Repos, index \in {1, 404}, user \in {"bob"},
       resp \in SubscriptionResponses :
        /\ DoRequest("check_subscription", "GET",
                     <<"repos/", owner, "/", repo, "/issues/", ToString(index),
                       "/subscriptions/", user>>,
                     None, None, None, resp, SubscriptionCheck(Outcome(resp)))
        /\ op_args' = RepoArgs(owner, repo)
        /\ parse_errors_logged' = << >>
        /\ UNCHANGED <<pageVars, pureVars, envVars>>

----------------------------------------------------------------------------
(* Resource clients: the operations that answer True *)

(* self.client.delete(...) or self.client.post(...), then return True *)
SucceededOrMissing(o) ==
    IF o.kind = "return" \/ Contains(Str(o.exc), "404") THEN Return(PyBool(TRUE)) ELSE o
Succeeded(o) == IF o.kind = "return" THEN Return(PyBool(TRUE)) ELSE o

delete_label ==
    \E owner \in Owners, repo \in Repos, id \in LabelIds, resp \in Responses :
        /\ DoRequest("delete_label", "DELETE", LabelPath(owner, repo, id),
                     None, None, None, resp, Succeeded(Outcome(resp)))
        /\ op_args' = RepoArgs(owner, repo)
        /\ parse_errors_logged' = << >>
        /\ UNCHANGED <<pageVars, pureVars, envVars>>

delete_comment ==
    \E owner \in Owners, repo \in Repos, id \in {5}, resp \in Responses :
        /\ DoRequest("delete_comment", "DELETE",
                     <<"repos/", owner, "/", repo, "/issues/comments/", ToString(id)>>,
                     None, None, None, resp, Succeeded(Outcome(resp)))
        /\ op_args' = RepoArgs(owner, repo)
        /\ parse_errors_logged' = << >>
        /\ UNCHANGED <<pageVars, pureVars, envVars>>

(* the server's side of the stopwatch of an issue: its answer to start,   *)
(* stop or delete and whether the stopwatch runs afterwards; starting a   *)
(* running stopwatch and stopping or deleting one that is not running is  *)
(* a conflict                                                             *)
StopwatchServer(verb, is_running) ==
    IF (verb = "start") = is_running
    THEN [running |-> is_running,
          resp |-> [kind |-> "response", status |-> 409,
                    text |-> <<"{\"message\": \"conflict\"}">>,
                    json |-> JDict([k \in JsonKeys |->
                                     IF k = "message" THEN "conflict" ELSE Missing]),
                    cause |-> None]]
    ELSE [running |-> verb = "start",
          resp |-> [kind |-> "response", status |-> IF verb = "delete" THEN 204 ELSE 201,
                    text |-> EmptyText, json |-> NotJSON, cause |-> None]]

(* one stopwatch operation: the request reaches the server or fails on    *)
(* the way                                                                *)
StopwatchCall(name, method, verb) ==
    \E owner \in Owners, repo \in Repos, index \in IssueIndexes,
       failure \in {None} \cup ConnectionFailures :
        LET served == StopwatchServer(verb, running)
            resp == IF failure = None THEN served.resp
                    ELSE [kind |-> "exception", status |-> 0, text |-> EmptyText,
                          json |-> NotJSON, cause |-> failure]
        IN /\ DoRequest(name, method,
                        <<"repos/", owner, "/", repo, "/issues/", ToString(index),
                          "/stopwatch/", verb>>,
                        None, None, None, resp, Succeeded(Outcome(resp)))
           /\ running' = (IF failure = None THEN served.running ELSE running)
           /\ op_args' = RepoArgs(owner, repo)
           /\ parse_errors_logged' = << >>
           /\ UNCHANGED <<pageVars, pureVars, loggerVars>>

start_stopwatch == StopwatchCall("start_stopwatch", "POST", "start")
stop_stopwatch == StopwatchCall("stop_stopwatch", "POST", "stop")
delete_stopwatch == StopwatchCall("delete_stopwatch", "DELETE", "delete")

(* C14: check_subscription returns True exactly when the GET succeeded,   *)
(* False exactly when the server answered 404, and lets every other       *)
(* failure propagate, whatever the text of the error message and the      *)
(* values in the request path.                                            *)
C14_SubscriptionByStatus ==
    op = "check_subscription" =>
        /\ outcome = Return(PyBool(TRUE)) <=> Outcome(lastResp).kind = "return"
        /\ outcome = Return(PyBool(FALSE)) <=> (GotResponse /\ lastResp.status = 404)
        /\ (Outcome(lastResp).kind = "raise" /\ ~(GotResponse /\ lastResp.status = 404))
                => outcome = Outcome(lastResp)

----------------------------------------------------------------------------
(* Properties of the resource clients *)

DeleteOps == {"delete_label", "delete_comment", "delete_stopwatch"}
StopwatchOps == {"start_stopwatch", "stop_stopwatch", "delete_stopwatch"}
ResourceOps == {"check_subscription", "get_issue", "search_issues", "list_repo_issues",
                "list_labels", "create_issue_attachment"}
               \cup DeleteOps \cup StopwatchOps
EmptyRepoPath == op_args.owner = "" \/ op_args.repo = ""

(* C15: an operation taking a repository owner and name that is called    *)
(* with an empty owner or an empty name raises a validation error and     *)
(* issues no transport request.                                           *)
C15_EmptyRepoPathRejected ==
    (op \in ResourceOps /\ EmptyRepoPath) =>
        /\ outcome.kind = "raise"
        /\ IsInstance(outcome.exc, "exceptions.GiteaValidationError")
        /\ requests_sent = 0
        /\ lastReq = NoReq

FileMissing == op = "create_issue_attachment" /\ ~op_args.file_exists

RECURSIVE KeptValues(_)
KeptValues(parsed) ==
    IF parsed = << >> THEN << >>
    ELSE (IF Head(parsed).kind = "return" THEN <<Head(parsed).value>> ELSE << >>)
         \o KeptValues(Tail(parsed))
CountFailed(parsed) == Cardinality({i \in DOMAIN parsed : parsed[i].kind = "raise"})
ListParsed ==
    IF op = "list_labels" THEN LabelsParsed(Outcome(lastResp))
    ELSE IssuesParsed(Outcome(lastResp))
IsListOp == op \in {"list_labels", "list_repo_issues", "search_issues"}

(* C18: when the transport returned a payload to a list operation, the    *)
(* call does not raise and its result is exactly the subsequence, in      *)
(* response order, of the items that parse successfully; each item that   *)
(* fails to parse is logged and excluded; with one bad item among three   *)
(* the result has exactly 2 items.                                        *)
C18_ListKeepsParsedItems ==
    (IsListOp /\ Outcome(lastResp).kind = "return") =>
        /\ outcome.kind = "return"
        /\ outcome.value.xs = KeptValues(ListParsed)
        /\ Len(parse_errors_logged) = CountFailed(ListParsed)
        /\ (Len(ListParsed) = 3 /\ CountFailed(ListParsed) = 1) =>
                Len(outcome.value.xs) = 2
C18_Witness ==
    /\ op = "list_repo_issues" /\ Outcome(lastResp).kind = "return"
    /\ Len(ListParsed) = 3 /\ CountFailed(ListParsed) = 1
    /\ ListParsed[2].kind = "raise"
    /\ outcome.kind = "return" /\ Len(outcome.value.xs) = 2
    /\ Len(parse_errors_logged) = 1

----------------------------------------------------------------------------
(* Properties of the Option records and of the record classes *)

OptionClasses == {"EditIssueOption", "EditLabelOption", "EditMilestoneOption",
                  "EditAttachmentOption"}
RecordClasses == {"Issue", "Comment", "Reaction", "TimelineEvent"}
WasApplied == ret # NoReturn

(* C17: for every edit Option record and every set S of fields the caller *)
(* supplied, to_dict() returns a mapping whose key set is exactly S and   *)
(* in which no key maps to null; with only title supplied the payload has *)
(* the single key title.                                                  *)
C17_ToDictExactlySupplied ==
    (arg.class \in OptionClasses /\ WasApplied) =>
        /\ ret.kind = "return"
        /\ DOMAIN ret.value.f = DOMAIN arg.data.f
        /\ \A k \in DOMAIN ret.value.f : ret.value.f[k] # PyNone

NestedFieldsOf(cls) ==
    CASE cls = "Issue" -> {"user", "assignee", "milestone", "repository", "pull_request"}
      [] cls = "TimelineEvent" -> {"user", "assignee", "milestone"}
      [] OTHER -> {"user"}
CollectionFieldsOf(cls) ==
    CASE cls = "Issue" -> {"labels", "assignees"}
      [] cls = "Comment" -> {"attachments"}
      [] OTHER -> {}
DateFieldsOf(cls) ==
    CASE cls = "Issue" -> {"created_at", "updated_at", "closed_at", "due_date"}
      [] cls = "Comment" -> {"created_at", "updated_at"}
      [] OTHER -> {"created_at"}

(* every optional field is missing, or empty, or a value of its kind *)
WellFormedPayload(cls, data) ==
    /\ \A k \in NestedFieldsOf(cls) \cap DOMAIN data.f : data.f[k].type = "dict"
    /\ \A k \in CollectionFieldsOf(cls) \cap DOMAIN data.f : data.f[k].type = "list"
    /\ \A k \in DateFieldsOf(cls) \cap DOMAIN data.f : data.f[k].type = "str"

(* C19: constructing an Issue, Comment, Reaction or TimelineEvent from a  *)
(* mapping never raises because optional fields are missing or empty; a   *)
(* nested object field (user, assignee, milestone, repository,            *)
(* pull_request) is absent when its key is missing or its value is an     *)
(* empty object, and a collection field (labels, assignees, attachments)  *)
(* is an empty sequence when it is absent from the payload.               *)
C19_MissingOrEmptyIsAbsent ==
    (arg.class \in RecordClasses /\ WasApplied
        /\ WellFormedPayload(arg.class, arg.data)) =>
        /\ ret.kind = "return"
        /\ \A k \in NestedFieldsOf(arg.class) :
              (k \notin DOMAIN arg.data.f \/ arg.data.f[k] = EmptyDict) =>
                  ret.value.f[k] = PyNone
        /\ \A k \in CollectionFieldsOf(arg.class) :
              k \notin DOMAIN arg.data.f => ret.value.f[k] = EmptyList

NoDateIn(data, k) ==
    k \notin DOMAIN data.f \/ data.f[k].s \in {EmptyText} \cup UnparsableDates

(* C20: date parsing is total for string input: for every date field of   *)
(* every record, and for parse_iso_datetime, a missing, empty or          *)
(* unparsable date string yields an absent value and never an exception,  *)
(* and the enclosing record is still constructed with its other fields.   *)
C20_DateParsingTotal ==
    /\ (arg.class \in RecordClasses /\ WasApplied
            /\ WellFormedPayload(arg.class, arg.data)) =>
            /\ ret.kind = "return"
            /\ \A k \in DateFieldsOf(arg.class) :
                  NoDateIn(arg.data, k) => ret.value.f[k] = PyNone
            /\ ret.value.f["id"] = arg.data.f["id"]
    /\ (arg.class = "parse_iso_datetime" /\ WasApplied) =>
            /\ ret.kind = "return"
            /\ (arg.data = PyNone \/ arg.data.s \in {EmptyText} \cup UnparsableDates) =>
                    ret.value = PyNone

(* C25: after GiteaClient construction at most one authentication         *)
(* mechanism is configured: when a token is supplied the token            *)
(* Authorization header is set and basic auth is not, even if a username  *)
(* and password are also supplied; basic auth is configured only when no  *)
(* token is given and both username and password are given (None and the  *)
(* empty string are "not given", as for every optional argument).         *)
C25_OneAuthMechanism ==
    /\ ~("Authorization" \in DOMAIN headers /\ auth # NoAuth)
    /\ op = "__init__" =>
        /\ Truthy(op_args.token) =>
                /\ "Authorization" \in DOMAIN headers
                /\ headers["Authorization"] = <<"token ", op_args.token>>
                /\ auth = NoAuth
        /\ auth # NoAuth =>
                /\ ~Truthy(op_args.token)
                /\ Truthy(op_args.username) /\ Truthy(op_args.password)
                /\ auth = <<op_args.username, op_args.password>>
C25_Witness ==
    /\ op = "__init__" /\ op_args.token = "secret-token"
    /\ op_args.username = "alice" /\ op_args.password = "pw"
    /\ auth = NoAuth /\ "Authorization" \in DOMAIN headers

(* C21: for every parameter map, build_query_params returns a map whose   *)
(* keys are exactly the input keys with a non-None value and whose values *)
(* are all strings: a boolean becomes the lowercase literal true or       *)
(* false, a list or tuple its elements' strings joined by commas, a       *)
(* datetime its ISO-8601 form, any other value its string form.           *)
C21_BuildQueryParams ==
    (arg.class = "build_query_params" /\ WasApplied) =>
        /\ ret.kind = "return" /\ ret.value.type = "dict"
        /\ DOMAIN ret.value.f =
                {k \in DOMAIN arg.data.f : arg.data.f[k].type # "NoneType"}
        /\ \A k \in DOMAIN ret.value.f :
              LET v == arg.data.f[k]
                  r == ret.value.f[k]
              IN /\ r.type = "str"
                 /\ v.type = "bool" => r.s = (IF v.b THEN <<"true">> ELSE <<"false">>)
                 /\ v.type = "str" => r.s = v.s
                 /\ v.type = "int" => r.s = <<ToString(v.n)>>
                 /\ v.type = "datetime" =>
                        r.s[6] = "T" /\ fromisoformat(r.s) = Return(v)
                 /\ (v.type \in {"list", "tuple"}
                        /\ \A i \in DOMAIN v.xs : v.xs[i].type # "datetime") =>
                        /\ Len(r.s) = (IF v.xs = << >> THEN 0 ELSE 2 * Len(v.xs) - 1)
                        /\ \A i \in DOMAIN v.xs : <<r.s[2 * i - 1]>> = str(v.xs[i])
                        /\ \A i \in 1..(Len(v.xs) - 1) : r.s[2 * i] = ","
                 /\ (v.type = "list" /\ Len(v.xs) = 1 /\ v.xs[1].type = "datetime") =>
                        r.s[6] = " " /\ fromisoformat(r.s) = Return(v.xs[1])

C21_Witness ==
    /\ arg.class = "build_query_params" /\ WasApplied
    /\ DOMAIN arg.data.f = {"state", "assigned", "labels", "since", "page"}
    /\ arg.data.f["state"] = PyNone /\ arg.data.f["assigned"] = PyTrue
    /\ arg.data.f["labels"].type = "tuple" /\ arg.data.f["since"].type = "datetime"
    /\ ret.value.f["assigned"] = PyStr(<<"true">>)
    /\ ret.value.f["labels"] = PyStr(<<"1", ",", "True", ",", "None">>)
    /\ "state" \notin DOMAIN ret.value.f

(* C22: every non-string query parameter value that a resource client    *)
(* hands to the transport has already been stringified by the encoding    *)
(* rules; each boolean filter of search_issues that is set to true is     *)
(* handed over as the lowercase literal string true, and list filters as  *)
(* comma-joined strings.                                                  *)
C22_ParamsStringified ==
    (op \in {"search_issues", "list_repo_issues", "list_labels"} /\ lastReq.sent) =>
        /\ \A k \in DOMAIN op_args.params.f : op_args.params.f[k].type = "str"
        /\ \A k \in {"assigned", "reviewed"} \cap DOMAIN op_args.params.f :
                op_args.params.f[k] = PyStr(<<"true">>)

(* C23: every delete-style operation returns True only when the server    *)
(* answered the DELETE with a 2xx status; when the resource is missing    *)
(* (404) or any other error occurs the error propagates and the           *)
(* operation never returns a success indicator.                           *)
C23_DeleteTrueOnly2xx ==
    op \in DeleteOps =>
        /\ lastReq.sent /\ lastReq.method = "DELETE"
        /\ outcome.kind = "return" =>
                /\ outcome = Return(PyBool(TRUE))
                /\ GotResponse /\ Is2xx(lastResp.status)
        /\ (~GotResponse \/ ~Is2xx(lastResp.status)) =>
                outcome.kind = "raise" /\ outcome = Outcome(lastResp)
C23_Witness ==
    /\ op = "delete_label" /\ GotResponse /\ lastResp.status = 404
    /\ outcome.kind = "raise" /\ Contains(Str(outcome.exc), "404")

(* C24: against a server on which each issue's stopwatch is either        *)
(* stopped or running, over any sequence of start_stopwatch,              *)
(* stop_stopwatch and delete_stopwatch calls, a call returns True only    *)
(* when the server accepted the transition, and a start while already     *)
(* running or a stop while not running surfaces the server's conflict as  *)
(* a raised API error, never as True and never silently ignored.          *)
C24_StopwatchConflictsRaise ==
    [][op' \in StopwatchOps =>
        /\ outcome'.kind \in {"return", "raise"}
        /\ outcome'.kind = "return" =>
                /\ outcome' = Return(PyBool(TRUE))
                /\ lastResp' = StopwatchServer(lastReq'.url[Len(lastReq'.url)], running).resp
                /\ Is2xx(lastResp'.status)
                /\ running' = (op' = "start_stopwatch") /\ running' # running
        /\ ((op' = "start_stopwatch" /\ running) \/ (op' = "stop_stopwatch" /\ ~running)) =>
                /\ outcome'.kind = "raise"
                /\ IsApiError(outcome'.exc)
                /\ running' = running
                /\ lastResp'.kind = "response" => Contains(Str(outcome'.exc), "409")]_vars
C24_Witness ==
    /\ op = "start_stopwatch" /\ running /\ GotResponse /\ lastResp.status = 409
    /\ outcome.kind = "raise" /\ IsApiError(outcome.exc)

(* C26: for every dividend a, divide(a, 0) raises ZeroDivisionError       *)
(* before any division is attempted and returns no value.                 *)
C26_DivideByZeroRaisesFirst ==
    (arg.class = "divide" /\ WasApplied /\ arg.data.b = PyInt(0)) =>
        /\ ret.kind = "raise"
        /\ ret.exc.cls = "ZeroDivisionError"
        /\ ret.exc.args # truediv(arg.data.a, arg.data.b).exc.args
        /\ ret.value = NoValue
C26_Witness ==
    /\ arg.class = "divide" /\ arg.data.a = PyInt(-2) /\ arg.data.b = PyInt(0)
    /\ ret.kind = "raise" /\ ret.exc.cls = "ZeroDivisionError"

(* C27: for all integers a and b of a bounded range (negative values      *)
(* included), add(a, b) = a + b, subtract(a, b) = a - b,                  *)
(* multiply(a, b) = a * b, and for b != 0 dividing a,                     *)
(* divide(a, b) * b = a.                                                  *)
C27_ArithmeticExact ==
    (arg.class \in {"add", "subtract", "multiply", "divide"} /\ WasApplied) =>
        LET a == arg.data.a.n
            b == arg.data.b.n
        IN /\ arg.class = "add" => ret = Return(PyInt(a + b))
           /\ arg.class = "subtract" => ret = Return(PyInt(a - b))
           /\ arg.class = "multiply" => ret = Return(PyInt(a * b))
           /\ (arg.class = "divide" /\ b # 0 /\ \E q \in (-MaxOperand)..MaxOperand : q * b = a) =>
                /\ ret.kind = "return" /\ ret.value.type = "float" /\ ret.value.exact
                /\ Arith("*", ret.value, arg.data.b).num = a
                /\ Arith("*", ret.value, arg.data.b).den = 1
C27_Witness ==
    /\ arg.class = "divide" /\ arg.data.a = PyInt(-3) /\ arg.data.b = PyInt(3)
    /\ ret.kind = "return" /\ ret.value.num = -1 /\ ret.value.den = 1

(* C28: sort_milestones_by_due_date returns a permutation of its input    *)
(* ordered by due date in which the milestones that have no due date are  *)
(* placed at the end, for both ascending = True and ascending = False.    *)
C28_SortedUndatedLast ==
    (arg.class = "sort_milestones_by_due_date" /\ WasApplied) =>
        /\ ret.kind = "return"
        /\ LET out == ret.value.xs
               Due(i) == out[i].f["due_on"]
           IN /\ Len(out) = Len(arg.data.milestones)
              /\ \A m \in DOMAIN out : \E i \in DOMAIN out : out[i] = arg.data.milestones[m]
              /\ \A i, j \in DOMAIN out :
                    i < j =>
                        /\ Due(i) = PyNone => Due(j) = PyNone
                        /\ (Due(i) # PyNone /\ Due(j) # PyNone) =>
                                IF arg.data.ascending THEN ~Earlier(Due(j), Due(i))
                                ELSE ~Earlier(Due(i), Due(j))

(* C30: after any sequence of setup_logger calls, the SDK logger holds    *)
(* exactly the handlers installed by the last call that succeeded (one    *)
(* console handler, plus one file handler iff that call gave a log_file), *)
(* so handlers never accumulate across calls; a call with an invalid      *)
(* level raises ValueError and leaves the logger's level and handlers     *)
(* unchanged.                                                             *)
C30_HandlersOfLastSuccess ==
    [][setup_calls' = setup_calls + 1 =>
        /\ logger_handlers' = installed'
        /\ ret'.kind = "return" =>
                /\ Len(logger_handlers') = (IF Truthy(arg'.data.log_file) THEN 2 ELSE 1)
                /\ logger_handlers'[1].kind = "StreamHandler"
                /\ Truthy(arg'.data.log_file) => logger_handlers'[2].kind = "FileHandler"
                /\ \A i \in DOMAIN logger_handlers' :
                        logger_handlers'[i].call = setup_calls'
        /\ LoggingAttribute(upper(arg'.data.level)).type # "int" =>
                /\ ret'.kind = "raise" /\ ret'.exc.cls = "ValueError"
                /\ UNCHANGED <<logger_level, logger_handlers>>]_vars

NextResources ==
    \/ check_subscription
    \/ get_issue
    \/ search_issues
    \/ delete_label
    \/ delete_comment
    \/ start_stopwatch
    \/ stop_stopwatch
    \/ delete_stopwatch
    \/ list_repo_issues
    \/ list_labels
    \/ create_issue_attachment

SpecResources == InitResources /\ [][NextResources]_vars

InitModels ==
    /\ arg \in ModelInputs
    /\ ret = NoReturn
    /\ Untouched
    /\ ClientConstructed(<<"https://gitea.example.com/api/v1">>, "secret-token",
                         None, None, DefaultTimeout)
    /\ json_exc_is_request_exc = TRUE
    /\ PaginateArgs(DefaultPageSize, NoMax, "{}")

NextModels ==
    \/ NewIssue
    \/ NewComment
    \/ NewReaction
    \/ NewTimelineEvent
    \/ call_parse_iso_datetime
    \/ EditIssueOption_to_dict
    \/ EditLabelOption_to_dict
    \/ EditMilestoneOption_to_dict
    \/ EditAttachmentOption_to_dict
    \/ call_build_query_params
    \/ call_sort_milestones_by_due_date
    \/ call_add
    \/ call_subtract
    \/ call_multiply
    \/ call_divide

SpecModels == InitModels /\ [][NextModels]_vars

NextLogger == setup_logger

SpecLogger == InitResources /\ [][NextLogger]_vars
====
